---------------------------- MODULE Spec2Model ----------------------------
(***************************************************************************)
(* Dependency resolver (src/src): the request validator, the requirement   *)
(* seeding of main.py, the candidate provider (GraphBuilder over DBClient) *)
(* and the backtracking Resolver with its plan emitter.                    *)
(*                                                                         *)
(* Data representation.                                                    *)
(*   - A package name is a sequence of one-character strings.              *)
(*   - A raw version string is [rel, kind]: kind "final" is the text of a  *)
(*     final release rel, "pre" the text of its pre-release (rel a1),      *)
(*     "bad" a text packaging.version.Version rejects.                     *)
(*   - A parsed Version is <<rel, fin>>, fin = 0 for the pre-release and   *)
(*     1 for the final release; PEP 440 orders rel a1 < rel.               *)
(*   - A specifier string is the sequence of its comma separated clauses,  *)
(*     each [op, v]; the text "*" and other junk are clauses whose op is   *)
(*     not a PEP 440 operator.  A SpecifierSet is a set of valid clauses.  *)
(***************************************************************************)
EXTENDS Integers, Sequences, FiniteSets, TLC

(***************************************************************************)
(* Bounds of the explored inputs.                                          *)
(***************************************************************************)
MaxRel == 2
MaxCap == 2

--------------------------------------------------------------------------
(* Package names                                                           *)

LowerChar(c) ==
    IF c = "A" THEN "a" ELSE IF c = "B" THEN "b" ELSE c

\* str.lower()
Lower(name) == [i \in 1..Len(name) |-> LowerChar(name[i])]

IsSeparator(c) == c \in {"-", "_", "."}

RECURSIVE CollapseRuns(_)
\* re.sub(r"[-_.]+", "-", name)
CollapseRuns(name) ==
    IF name = <<>> THEN <<>>
    ELSE IF IsSeparator(Head(name))
         THEN IF Len(name) > 1 /\ IsSeparator(name[2])
              THEN CollapseRuns(Tail(name))
              ELSE <<"-">> \o CollapseRuns(Tail(name))
         ELSE <<Head(name)>> \o CollapseRuns(Tail(name))

\* packaging.utils.canonicalize_name
canonicalize_name(name) == Lower(CollapseRuns(name))

NameChars == {"a", "b", "A", "B", "-", "_", "."}

\* InputValidator._is_valid_package_name: ^[A-Za-z0-9_\-\.]+$
is_valid_package_name(name) ==
    /\ Len(name) >= 1
    /\ \A i \in 1..Len(name) : name[i] \in NameChars

--------------------------------------------------------------------------
(* Versions and specifiers (packaging.version, packaging.specifiers)       *)

InvalidVersion(raw) == raw.kind = "bad"

\* Version(raw), for a raw text that parses
Version(raw) == <<raw.rel, IF raw.kind = "pre" THEN 0 ELSE 1>>

VersionKey(v) == 2 * v[1] + v[2]

is_prerelease(v) == v[2] = 0

ValidOps == {"==", "!=", ">=", "<=", "<", ">"}

\* Specifier.contains(v, prereleases=True) for one clause
ClauseContains(c, v) ==
    CASE c.op = "==" -> v = c.v
      [] c.op = "!=" -> v # c.v
      [] c.op = ">=" -> VersionKey(v) >= VersionKey(c.v)
      [] c.op = "<=" -> VersionKey(v) <= VersionKey(c.v)
      [] c.op = ">"  -> VersionKey(v) > VersionKey(c.v)
      [] c.op = "<"  -> /\ VersionKey(v) < VersionKey(c.v)
                        /\ ~(is_prerelease(v) /\ ~is_prerelease(c.v) /\ v[1] = c.v[1])
      [] OTHER -> FALSE

\* SpecifierSet(text) raises InvalidSpecifier
InvalidSpecifier(text) == \E i \in 1..Len(text) : text[i].op \notin ValidOps

\* SpecifierSet(text), for a text that parses: the set of its clauses
SpecifierSet(text) == {text[i] : i \in 1..Len(text)}

\* SpecifierSet.contains(v, prereleases=True)
Contains(spec, v) == \A c \in spec : ClauseContains(c, v)

\* SpecifierSet.contains(v, prereleases=False)
ContainsNoPre(spec, v) == ~is_prerelease(v) /\ Contains(spec, v)

ClauseRank(c) ==
    LET opr == CASE c.op = "!=" -> 0 [] c.op = "<" -> 1 [] c.op = "<=" -> 2
                 [] c.op = "==" -> 3 [] c.op = ">" -> 4 [] OTHER -> 5
    IN  opr * 100 + VersionKey(c.v)

RECURSIVE SpecStr(_)
\* str(SpecifierSet): the clauses joined by commas, in sorted order
SpecStr(spec) ==
    IF spec = {} THEN <<>>
    ELSE LET c == CHOOSE x \in spec : \A y \in spec : ClauseRank(x) <= ClauseRank(y)
         IN  <<c>> \o SpecStr(spec \ {c})

\* resolver.py:150-152: SpecifierSet(f"{current_spec},{new_spec}")
CombineSpecs(current_spec, new_spec) ==
    SpecifierSet(SpecStr(current_spec) \o SpecStr(new_spec))

--------------------------------------------------------------------------
(* Metadata store (DBClient).  A store is the sequence of its rows in the  *)
(* order a query returns them; a row is                                    *)
(*   [name, version, requires_python, requires_dist, yanked]               *)
(* with requires_python = [null, text] (SQL NULL or a specifier string)    *)
(* and requires_dist a sequence of raw requirement strings.                *)

NoSpec == [null |-> TRUE, text |-> <<>>]

RECURSIVE SelectSeq2(_, _, _)
\* the rows of a store whose LOWER(name) is lname, in store order
SelectSeq2(rows, lname, i) ==
    IF i > Len(rows) THEN <<>>
    ELSE (IF Lower(rows[i].name) = lname THEN <<rows[i]>> ELSE <<>>)
         \o SelectSeq2(rows, lname, i + 1)

RowsOf(rows, package) == SelectSeq2(rows, Lower(package), 1)

\* DBClient._sql_version_match(version, specifier): 1 (TRUE) or 0 (FALSE)
sql_version_match(version, specifier) ==
    IF specifier.null \/ specifier.text = <<>> THEN TRUE
    ELSE IF InvalidVersion(version) \/ InvalidSpecifier(specifier.text) THEN FALSE
    ELSE Contains(SpecifierSet(specifier.text), Version(version))

\* DBClient.get_available_versions
get_available_versions(rows, package) ==
    IF package = <<>> THEN <<>>
    ELSE LET r == RowsOf(rows, package)
         IN  [i \in 1..Len(r) |-> r[i].version]

\* fetchone() of a query by LOWER(name) and version: <<>> or <<row>>
FetchRow(rows, package, version) ==
    LET r == RowsOf(rows, package)
        hit == {i \in 1..Len(r) : r[i].version = version}
    IN  IF hit = {} THEN <<>>
        ELSE <<r[CHOOSE i \in hit : \A j \in hit : i <= j]>>

\* DBClient.get_dependencies
db_get_dependencies(rows, package, version) ==
    LET row == FetchRow(rows, package, version)
    IN  IF row = <<>> THEN <<>> ELSE row[1].requires_dist

\* DBClient.package_and_version_exists(package, specifier)
package_and_version_exists(rows, package, specifier) ==
    LET r == RowsOf(rows, package)
    IN  \E i \in 1..Len(r) : sql_version_match(r[i].version, specifier)

\* DBClient.python_version_satisfies_package
python_version_satisfies_package(rows, package, version, python_version) ==
    LET row == FetchRow(rows, package, version)
    IN  IF row = <<>> THEN TRUE
        ELSE IF row[1].requires_python.null THEN TRUE
        ELSE sql_version_match(python_version, row[1].requires_python)

\* DBClient.is_yanked
is_yanked(rows, package, version) ==
    LET row == FetchRow(rows, package, version)
    IN  row # <<>> /\ row[1].yanked

--------------------------------------------------------------------------
(* Candidate provider (GraphBuilder).  gb = [db, python_version,           *)
(* max_versions]: python_version is [given, raw]; max_versions 0 stands    *)
(* for None (both are falsy in the cap test).                              *)

\* the candidate record built at graph_builder.py:70-75
CandidateRecord(package_name, version_obj, version, yanked) ==
    [package     |-> Lower(package_name),
     version_obj |-> version_obj,
     version     |-> version,
     is_yanked   |-> yanked]

RECURSIVE FilterVersions(_, _, _, _, _)
\* graph_builder.py:46-76: parse, specifier filter, interpreter filter
FilterVersions(gb, package_name, specifier_set, raw_versions, i) ==
    IF i > Len(raw_versions) THEN <<>>
    ELSE LET version == raw_versions[i]
             rest == FilterVersions(gb, package_name, specifier_set, raw_versions, i + 1)
         IN  IF InvalidVersion(version) THEN rest
             ELSE IF ~Contains(specifier_set, Version(version)) THEN rest
             ELSE IF /\ gb.python_version.given
                     /\ ~python_version_satisfies_package(gb.db, package_name, version,
                                                          gb.python_version.raw)
                  THEN rest
             ELSE <<CandidateRecord(package_name, Version(version), version,
                                    is_yanked(gb.db, package_name, version))>> \o rest

\* c sorts strictly before d under the key of a sort pass
SortsBefore(pass, c, d) ==
    IF pass = "version_desc"
    THEN VersionKey(c.version_obj) > VersionKey(d.version_obj)
    ELSE ~c.is_yanked /\ d.is_yanked

\* insert c into a list already sorted under pass, after every equal key
InsertStable(pass, sorted, c) ==
    LET later == {i \in 1..Len(sorted) : SortsBefore(pass, c, sorted[i])}
        pos == IF later = {} THEN Len(sorted) + 1
               ELSE CHOOSE i \in later : \A j \in later : i <= j
    IN  SubSeq(sorted, 1, pos - 1) \o <<c>> \o SubSeq(sorted, pos, Len(sorted))

RECURSIVE StableSort(_, _)
\* list.sort(key=...): stable, equal keys keep their order
StableSort(pass, list) ==
    IF list = <<>> THEN <<>>
    ELSE InsertStable(pass, StableSort(pass, SubSeq(list, 1, Len(list) - 1)), list[Len(list)])

\* graph_builder.py:82-84: the cap
Truncate(gb, candidates) ==
    IF gb.max_versions # 0 /\ Len(candidates) > gb.max_versions
    THEN SubSeq(candidates, 1, gb.max_versions)
    ELSE candidates

\* the candidates sorted newest first only, yanked releases not moved back
SortCandidates_NewestOnly(candidates) == StableSort("version_desc", candidates)

\* graph_builder.py:78-80: newest first, then yanked releases last
SortCandidates(candidates) ==
    StableSort("yanked_last", StableSort("version_desc", candidates))

\* get_candidate_versions with the cap applied to the raw version list,
\* before the filters, instead of to the sorted candidates
get_candidate_versions_CapFirst(gb, package_name, specifier_set) ==
    SortCandidates(FilterVersions(gb, package_name, specifier_set,
                                  Truncate(gb, get_available_versions(gb.db, package_name)), 1))

\* GraphBuilder.get_candidate_versions
get_candidate_versions(gb, package_name, specifier_set) ==
    Truncate(gb, SortCandidates(FilterVersions(gb, package_name, specifier_set,
                                               get_available_versions(gb.db, package_name), 1)))

\* markers evaluate python_version against one clause (packaging.markers)
MarkerHolds(marker, python_version) ==
    ~InvalidVersion(python_version) /\ ClauseContains(marker.clause, Version(python_version))

\* Requirement(raw_dep) raises: junk text or an unparseable specifier
InvalidRequirement(raw_dep) == ~raw_dep.ok \/ InvalidSpecifier(raw_dep.spec)

RECURSIVE CleanDeps(_, _, _)
\* graph_builder.py:106-133: the loop over the raw requirement strings
CleanDeps(gb, raw_deps_list, i) ==
    IF i > Len(raw_deps_list) THEN <<>>
    ELSE LET raw_dep == raw_deps_list[i]
             rest == CleanDeps(gb, raw_deps_list, i + 1)
         IN  IF InvalidRequirement(raw_dep) THEN rest
             ELSE IF /\ raw_dep.marker.present
                     /\ gb.python_version.given
                     /\ ~MarkerHolds(raw_dep.marker, gb.python_version.raw)
                  THEN rest
             ELSE <<[name |-> Lower(raw_dep.name), spec |-> SpecifierSet(raw_dep.spec)]>>
                  \o rest

\* GraphBuilder.get_dependencies
get_dependencies(gb, package_name, version) ==
    CleanDeps(gb, db_get_dependencies(gb.db, package_name, version), 1)

--------------------------------------------------------------------------
(* Python dicts: a sequence of [k, v] pairs in insertion order, keys       *)
(* unique.                                                                 *)

DictKeys(d) == [i \in 1..Len(d) |-> d[i].k]

DictHas(d, key) == \E i \in 1..Len(d) : d[i].k = key

DictGet(d, key) == d[CHOOSE i \in 1..Len(d) : d[i].k = key].v

\* d[key] = value: an existing key keeps its position
DictPut(d, key, value) ==
    IF DictHas(d, key)
    THEN [i \in 1..Len(d) |-> IF d[i].k = key THEN [k |-> key, v |-> value] ELSE d[i]]
    ELSE Append(d, [k |-> key, v |-> value])

\* item in list
InList(list, item) == \E i \in 1..Len(list) : list[i] = item

RECURSIVE ListWithout(_, _)
\* [x for x in list if x != item]
ListWithout(list, item) ==
    IF list = <<>> THEN <<>>
    ELSE (IF Head(list) # item THEN <<Head(list)>> ELSE <<>>) \o ListWithout(Tail(list), item)

RECURSIVE ListNotIn(_, _)
\* [x for x in list if x not in other]
ListNotIn(list, other) ==
    IF list = <<>> THEN <<>>
    ELSE (IF ~InList(other, Head(list)) THEN <<Head(list)>> ELSE <<>>)
         \o ListNotIn(Tail(list), other)

\* the keys of a candidate record (a Python dict with string keys)
HasKey(record, key) == key \in DOMAIN record

--------------------------------------------------------------------------
(* Resolver.  The outcome of a frame is                                    *)
(*   [kind, assignments, stats, package, constraint, exc]                  *)
(* kind "solution" (the frame returned), "conflict" (it raised             *)
(* ConflictError) or "error" (another exception went through it);          *)
(* package <<>> and constraint.null stand for None.                        *)

NoConstraint == [null |-> TRUE, spec |-> {}]

Solution(assignments, stats) ==
    [kind |-> "solution", assignments |-> assignments, stats |-> stats,
     package |-> <<>>, constraint |-> NoConstraint, exc |-> "none"]

\* ConflictError(message, package, constraint)
ConflictError(package, constraint, stats) ==
    [kind |-> "conflict", assignments |-> <<>>, stats |-> stats,
     package |-> package, constraint |-> constraint, exc |-> "ConflictError"]

Raised(exc, stats) ==
    [kind |-> "error", assignments |-> <<>>, stats |-> stats,
     package |-> <<>>, constraint |-> NoConstraint, exc |-> exc]

\* constraints.get(package, SpecifierSet(""))
ConstraintOf(constraints, package) ==
    IF DictHas(constraints, package) THEN DictGet(constraints, package) ELSE {}

RECURSIVE MrvLoop(_, _, _, _, _, _)
\* resolver.py:204-210: one package of the loop, count candidates counted for it
MrvPick(gb, todo_list, constraints, i, best_pkg, min_candidates, count) ==
    IF count = 0 THEN todo_list[i]
    ELSE IF min_candidates = -1 \/ count < min_candidates
         THEN MrvLoop(gb, todo_list, constraints, i + 1, todo_list[i], count)
         ELSE MrvLoop(gb, todo_list, constraints, i + 1, best_pkg, min_candidates)

\* resolver.py:196-212; min_candidates -1 stands for float('inf')
MrvLoop(gb, todo_list, constraints, i, best_pkg, min_candidates) ==
    IF i > Len(todo_list) THEN best_pkg
    ELSE MrvPick(gb, todo_list, constraints, i, best_pkg, min_candidates,
                 Len(get_candidate_versions(gb, todo_list[i],
                                            ConstraintOf(constraints, todo_list[i]))))

\* Resolver._select_mrv_package
select_mrv_package(gb, todo_list, constraints) ==
    MrvLoop(gb, todo_list, constraints, 1, <<>>, -1)

RECURSIVE MergeDeps(_, _, _, _, _)
\* resolver.py:129-159: the loop over a candidate's dependencies;
\* ok = FALSE is the ConflictError of line 140
MergeDeps(dependencies, j, assignments, new_constraints, new_todo_additions) ==
    IF j > Len(dependencies)
    THEN [ok |-> TRUE, constraints |-> new_constraints, additions |-> new_todo_additions]
    ELSE LET dependency_name == canonicalize_name(dependencies[j].name)
             new_spec == dependencies[j].spec
         IN  IF /\ DictHas(assignments, dependency_name)
                /\ ~ContainsNoPre(new_spec, DictGet(assignments, dependency_name).version_obj)
             THEN [ok |-> FALSE, constraints |-> new_constraints,
                   additions |-> new_todo_additions]
             ELSE IF DictHas(new_constraints, dependency_name)
             THEN MergeDeps(dependencies, j + 1, assignments,
                            DictPut(new_constraints, dependency_name,
                                    CombineSpecs(DictGet(new_constraints, dependency_name),
                                                 new_spec)),
                            new_todo_additions)
             ELSE MergeDeps(dependencies, j + 1, assignments,
                            DictPut(new_constraints, dependency_name, new_spec),
                            IF DictHas(assignments, dependency_name)
                            THEN new_todo_additions
                            ELSE Append(new_todo_additions, dependency_name))

RECURSIVE backtracking(_, _, _, _, _)
RECURSIVE TryCandidates(_, _, _, _, _, _, _, _)
\* resolver.py:169-174: the child frame r returned, or raised, for candidate i
AfterChild(gb, assignments, constraints, new_todo_list, package_to_solve, candidates, i, r) ==
    IF r.kind = "conflict"
    THEN TryCandidates(gb, assignments, constraints, new_todo_list, package_to_solve,
                       candidates, i + 1, r.stats)
    ELSE r

\* resolver.py:162-174: candidate i with its dependencies merged
TryMerged(gb, assignments, constraints, new_todo_list, package_to_solve, candidates, i, stats, merged) ==
    IF ~merged.ok
    THEN TryCandidates(gb, assignments, constraints, new_todo_list, package_to_solve,
                       candidates, i + 1, stats)
    ELSE AfterChild(gb, assignments, constraints, new_todo_list, package_to_solve,
                    candidates, i,
                    backtracking(gb, DictPut(assignments, package_to_solve, candidates[i]),
                                 merged.constraints,
                                 new_todo_list \o ListNotIn(merged.additions, new_todo_list),
                                 stats))

\* resolver.py:115-182: the loop over the candidates of one frame
TryCandidates(gb, assignments, constraints, new_todo_list, package_to_solve, candidates, i, stats) ==
    IF i > Len(candidates)
    THEN ConflictError(<<>>, NoConstraint, [stats EXCEPT !.backtracks = @ + 1])
    ELSE IF ~HasKey(candidates[i], "version_str") THEN Raised("KeyError", stats)
    ELSE TryMerged(gb, assignments, constraints, new_todo_list, package_to_solve,
                   candidates, i, stats,
                   MergeDeps(get_dependencies(gb, package_to_solve, candidates[i].version_str),
                             1, assignments, constraints, <<>>))

\* the frame with no candidates raising without counting a backtrack
Frame_Uncounted(gb, assignments, constraints, todo_list, package_to_solve, candidates, stats) ==
    IF candidates = <<>>
    THEN ConflictError(package_to_solve,
                       [null |-> FALSE, spec |-> DictGet(constraints, package_to_solve)],
                       stats)
    ELSE TryCandidates(gb, assignments, constraints, ListWithout(todo_list, package_to_solve),
                       package_to_solve, candidates, 1, stats)

\* resolver.py:97-117: the frame of package_to_solve, its candidates fetched
Frame(gb, assignments, constraints, todo_list, package_to_solve, candidates, stats) ==
    IF candidates = <<>>
    THEN ConflictError(package_to_solve,
                       [null |-> FALSE, spec |-> DictGet(constraints, package_to_solve)],
                       [stats EXCEPT !.backtracks = @ + 1])
    ELSE TryCandidates(gb, assignments, constraints, ListWithout(todo_list, package_to_solve),
                       package_to_solve, candidates, 1, stats)

\* resolver.py:95-102: the frame, its package selected
SolvePackage(gb, assignments, constraints, todo_list, package_to_solve, stats) ==
    Frame(gb, assignments, constraints, todo_list, package_to_solve,
          get_candidate_versions(gb, package_to_solve, DictGet(constraints, package_to_solve)),
          stats)

\* Resolver._backtracking
backtracking(gb, assignments, constraints, todo_list, stats) ==
    IF todo_list = <<>> THEN Solution(assignments, [stats EXCEPT !.steps = @ + 1])
    ELSE SolvePackage(gb, assignments, constraints, todo_list,
                      select_mrv_package(gb, todo_list, constraints),
                      [stats EXCEPT !.steps = @ + 1])

--------------------------------------------------------------------------
(* Plan emitter.  graph is a dict package -> set of names; a Python set    *)
(* iterates in hash order, given here by set_order, a sequence holding     *)
(* every name once.                                                        *)

RECURSIVE IterateSet(_, _)
\* the elements of set in the order set_order lists them
IterateSet(set, set_order) ==
    IF set_order = <<>> THEN <<>>
    ELSE (IF Head(set_order) \in set THEN <<Head(set_order)>> ELSE <<>>)
         \o IterateSet(set, Tail(set_order))

\* resolver.py:230-240: the edges of one package of the solution
EdgesOf(gb, assignments, package, version_str) ==
    {n \in {canonicalize_name(d.name) : d \in
                {get_dependencies(gb, package, version_str)[j] :
                    j \in 1..Len(get_dependencies(gb, package, version_str))}} :
        DictHas(assignments, n)}

\* resolver.py:223-240: the graph; a record without 'version_str' has no entry
BuildGraph(gb, assignments) ==
    [i \in 1..Len(assignments) |->
        [k |-> assignments[i].k,
         v |-> IF HasKey(assignments[i].v, "version_str")
               THEN EdgesOf(gb, assignments, assignments[i].k, assignments[i].v.version_str)
               ELSE {}]]

\* data['version_str'] of resolver.py:227 raises KeyError
GraphKeyError(assignments) ==
    \E i \in 1..Len(assignments) : ~HasKey(assignments[i].v, "version_str")

RECURSIVE visit(_, _, _, _)
RECURSIVE VisitEach(_, _, _, _, _)
\* resolver.py:258-259: for dependency in graph[node]: visit(dependency)
VisitEach(graph, set_order, nodes, i, st) ==
    IF i > Len(nodes) THEN st
    ELSE VisitEach(graph, set_order, nodes, i + 1, visit(graph, set_order, nodes[i], st))

\* resolver.py:246-263; st = [visited, temp_visited, order]
visit(graph, set_order, node, st) ==
    IF node \in st.visited THEN st
    ELSE IF node \in st.temp_visited THEN st
    ELSE LET entered == [st EXCEPT !.temp_visited = @ \cup {node}]
             after == VisitEach(graph, set_order,
                                IterateSet(DictGet(graph, node), set_order), 1, entered)
         IN  [visited |-> after.visited \cup {node},
              temp_visited |-> after.temp_visited \ {node},
              order |-> Append(after.order, node)]

\* Resolver._topological_sort: [ok, order]; ok = FALSE is a KeyError
topological_sort(gb, assignments, set_order) ==
    IF GraphKeyError(assignments) THEN [ok |-> FALSE, order |-> <<>>]
    ELSE [ok |-> TRUE,
          order |-> VisitEach(BuildGraph(gb, assignments), set_order, DictKeys(assignments), 1,
                              [visited |-> {}, temp_visited |-> {}, order |-> <<>>]).order]

\* resolver.py:281-290: one record of the plan per package of the order
PlanOf(assignments, sorted) ==
    IF ~sorted.ok THEN [ok |-> FALSE, plan |-> <<>>]
    ELSE IF \E i \in 1..Len(sorted.order) :
              \/ ~HasKey(DictGet(assignments, sorted.order[i]), "version_str")
              \/ ~HasKey(DictGet(assignments, sorted.order[i]), "is_yanked")
              \/ ~HasKey(DictGet(assignments, sorted.order[i]), "vulnerabilities")
         THEN [ok |-> FALSE, plan |-> <<>>]
    ELSE [ok |-> TRUE,
          plan |-> [i \in 1..Len(sorted.order) |->
                      [package |-> sorted.order[i],
                       version |-> DictGet(assignments, sorted.order[i]).version_str,
                       yanked |-> DictGet(assignments, sorted.order[i]).is_yanked,
                       vulnerabilities |->
                           DictGet(assignments, sorted.order[i]).vulnerabilities]]]

\* Resolver._format_solution: [ok, plan]; ok = FALSE is a KeyError
format_solution(gb, assignments, set_order) ==
    PlanOf(assignments, topological_sort(gb, assignments, set_order))

RECURSIVE NormalizeReqs(_, _)
\* resolver.py:47: {canonicalize_name(k): v for k, v in requirements_map.items()}
NormalizeReqs(requirements_map, i) ==
    IF i = 0 THEN <<>>
    ELSE DictPut(NormalizeReqs(requirements_map, i - 1),
                 canonicalize_name(requirements_map[i].k), requirements_map[i].v)

\* resolver.py:47-56: the constraint map the root frame is entered with
SeedConstraints(requirements_map) == NormalizeReqs(requirements_map, Len(requirements_map))

ZeroStats == [steps |-> 0, backtracks |-> 0]

\* resolver.py:62-66: the ok result of a solution whose plan is formatted
OkResult(r, formatted) ==
    IF formatted.ok
    THEN [status |-> "ok", install_plan |-> formatted.plan, package |-> <<>>,
          constraint_violated |-> NoSpec, stats |-> r.stats, exc |-> "none"]
    ELSE [status |-> "error", install_plan |-> <<>>, package |-> <<>>,
          constraint_violated |-> NoSpec, stats |-> r.stats, exc |-> "KeyError"]

\* resolver.py:58-78: the result of resolve for the outcome r of the root frame
ResultOf(gb, r, set_order) ==
    IF r.kind = "solution"
    THEN OkResult(r, format_solution(gb, r.assignments, set_order))
    ELSE IF r.kind = "conflict"
    THEN [status |-> "conflict", install_plan |-> <<>>, package |-> r.package,
          constraint_violated |->
              IF r.constraint.null \/ r.constraint.spec = {} THEN NoSpec
              ELSE [null |-> FALSE, text |-> SpecStr(r.constraint.spec)],
          stats |-> r.stats, exc |-> "none"]
    ELSE [status |-> "error", install_plan |-> <<>>, package |-> <<>>,
          constraint_violated |-> NoSpec, stats |-> r.stats, exc |-> r.exc]

\* resolver.py:49-60: the search from the seeded constraint map
ResolveSeeded(gb, constraints, set_order) ==
    ResultOf(gb, backtracking(gb, <<>>, constraints, DictKeys(constraints), ZeroStats),
             set_order)

\* Resolver.resolve: [status, install_plan, package, constraint_violated, stats, exc];
\* status "error" is an exception other than ConflictError leaving resolve
resolve(gb, requirements_map, set_order) ==
    ResolveSeeded(gb, SeedConstraints(requirements_map), set_order)

--------------------------------------------------------------------------
(* Request validator and requirement seeding.  A request (input_data) is   *)
(*   [python, fixed, wants, max_versions]                                  *)
(* python = [given, raw]; fixed a dict name -> specifier string; wants a   *)
(* list of names.                                                          *)

\* the text "*"
Star == <<[op |-> "*", v |-> <<1, 1>>]>>

\* InputValidator._is_valid_specifier
is_valid_specifier(spec_str) ==
    IF spec_str = Star \/ spec_str = <<>> THEN TRUE ELSE ~InvalidSpecifier(spec_str)

\* input_validator.py:41-50: ^\d+\.\d+(\.\d+)?$ admits final release texts only
PythonFormatOk(python) == ~python.given \/ python.raw.kind = "final"

\* input_validator.py:61-73: the first fixed entry that fails, as its message
FixedError(rows, fixed) ==
    LET bad == {i \in 1..Len(fixed) :
                  \/ ~is_valid_package_name(fixed[i].k)
                  \/ ~is_valid_specifier(fixed[i].v)
                  \/ ~package_and_version_exists(rows, fixed[i].k,
                                                 [null |-> FALSE, text |-> fixed[i].v])}
    IN  IF bad = {} THEN "none"
        ELSE LET i == CHOOSE x \in bad : \A y \in bad : x <= y
             IN  IF ~is_valid_package_name(fixed[i].k) THEN "fixed_name"
                 ELSE IF ~is_valid_specifier(fixed[i].v) THEN "fixed_specifier"
                 ELSE "fixed_not_found"

\* input_validator.py:86-97: the first wants item that fails, as its message
WantsError(rows, wants) ==
    LET bad == {i \in 1..Len(wants) :
                  \/ ~is_valid_package_name(wants[i])
                  \/ ~package_and_version_exists(rows, wants[i], NoSpec)}
    IN  IF bad = {} THEN "none"
        ELSE LET i == CHOOSE x \in bad : \A y \in bad : x <= y
             IN  IF ~is_valid_package_name(wants[i]) THEN "wants_name"
                 ELSE "wants_not_found"

\* input_validator.py:100-109: set(fixed.keys()) & set(wants)
FixedWantsIntersection(input_data) ==
    {input_data.fixed[i].k : i \in 1..Len(input_data.fixed)}
        \cap {input_data.wants[i] : i \in 1..Len(input_data.wants)}

\* InputValidator.validate: "none" (valid) or the rule violated
validate(rows, input_data) ==
    IF ~PythonFormatOk(input_data.python) THEN "python_format"
    ELSE IF FixedError(rows, input_data.fixed) # "none"
         THEN FixedError(rows, input_data.fixed)
    ELSE IF WantsError(rows, input_data.wants) # "none"
         THEN WantsError(rows, input_data.wants)
    ELSE IF FixedWantsIntersection(input_data) # {} THEN "fixed_and_wants"
    ELSE "none"

RECURSIVE PutFixed(_, _)
\* main.py:89-92: requirements[pkg] = SpecifierSet(spec_str)
PutFixed(fixed, i) ==
    IF i = 0 THEN <<>>
    ELSE DictPut(PutFixed(fixed, i - 1), fixed[i].k, SpecifierSet(fixed[i].v))

RECURSIVE PutWants(_, _, _)
\* main.py:95-100: requirements[pkg] = SpecifierSet("") unless pkg is a key
PutWants(requirements, wants, i) ==
    IF i > Len(wants) THEN requirements
    ELSE PutWants(IF DictHas(requirements, wants[i]) THEN requirements
                  ELSE DictPut(requirements, wants[i], {}),
                  wants, i + 1)

\* prepare_requirements: [ok, requirements]; ok = FALSE is InvalidSpecifier
prepare_requirements(input_data) ==
    IF \E i \in 1..Len(input_data.fixed) : InvalidSpecifier(input_data.fixed[i].v)
    THEN [ok |-> FALSE, requirements |-> <<>>]
    ELSE [ok |-> TRUE,
          requirements |-> PutWants(PutFixed(input_data.fixed, Len(input_data.fixed)),
                                    input_data.wants, 1)]

\* main.py:201-205: GraphBuilder(db_client, python_version, max_versions)
GraphBuilder(rows, input_data) ==
    [db |-> rows, python_version |-> input_data.python,
     max_versions |-> input_data.max_versions]

--------------------------------------------------------------------------
(* The endpoint's form handling (main.py resolve_dependencies).  A form is *)
(* [python, fixed_ok, fixed, wants, max_versions]: python not given is the *)
(* blank text, fixed_ok says whether the fixed text decodes to a JSON      *)
(* object (fixed is that object), wants is the list of submitted items,    *)
(* each a sequence of characters that may hold "," and " ".                *)

RECURSIVE StripLeft(_)
StripLeft(text) ==
    IF text # <<>> /\ Head(text) = " " THEN StripLeft(Tail(text)) ELSE text

RECURSIVE StripRight(_)
StripRight(text) ==
    IF text # <<>> /\ text[Len(text)] = " "
    THEN StripRight(SubSeq(text, 1, Len(text) - 1))
    ELSE text

\* str.strip()
Strip(text) == StripRight(StripLeft(text))

RECURSIVE SplitComma(_, _)
\* item.split(","): the pieces of text, current being the piece in progress
SplitComma(text, current) ==
    IF text = <<>> THEN <<current>>
    ELSE IF Head(text) = "," THEN <<current>> \o SplitComma(Tail(text), <<>>)
    ELSE SplitComma(Tail(text), Append(current, Head(text)))

RECURSIVE StripParts(_)
\* main.py:175: [x.strip() for x in item.split(",") if x.strip()]
StripParts(parts) ==
    IF parts = <<>> THEN <<>>
    ELSE IF Strip(Head(parts)) = <<>> THEN StripParts(Tail(parts))
    ELSE <<Strip(Head(parts))>> \o StripParts(Tail(parts))

RECURSIVE FinalWants(_)
\* main.py:169-178: final_wants
FinalWants(wants) ==
    IF wants = <<>> THEN <<>>
    ELSE IF \E i \in 1..Len(Head(wants)) : Head(wants)[i] = ","
         THEN StripParts(SplitComma(Head(wants), <<>>)) \o FinalWants(Tail(wants))
    ELSE IF Strip(Head(wants)) # <<>>
         THEN <<Strip(Head(wants))>> \o FinalWants(Tail(wants))
    ELSE FinalWants(Tail(wants))

\* main.py:146-182: "none" or the HTTP 400 raised before validation
EndpointError(form) ==
    IF ~form.python.given THEN "python_required"
    ELSE IF ~form.fixed_ok THEN "fixed_json"
    ELSE IF form.wants = <<>> THEN "wants_required"
    ELSE "none"

\* main.py:186-191: input_data
BuildInput(form) ==
    [python |-> form.python, fixed |-> form.fixed,
     wants |-> FinalWants(form.wants), max_versions |-> form.max_versions]

--------------------------------------------------------------------------
(* The explored inputs                                                     *)

NameA == <<"a">>
NameUpperA == <<"A">>
NameB == <<"b">>

StoredNames == {NameA, NameB}
RequestNames == {NameA, NameUpperA, NameB}

\* a project name that is not in canonical form, and its canonical form
NameA_B == <<"a", "_", "b">>
NameADashB == <<"a", "-", "b">>

Final(rel) == [rel |-> rel, kind |-> "final"]
Clause(op, rel) == [op |-> op, v |-> <<rel, 1>>]

RawVersions == [rel : 1..MaxRel, kind : {"final", "pre", "bad"}]

NoPython == [given |-> FALSE, raw |-> Final(1)]
Python(raw) == [given |-> TRUE, raw |-> raw]

NoMarker == [present |-> FALSE, clause |-> Clause(">=", 1)]
RequiresB == <<[ok |-> TRUE, name |-> NameB, spec |-> <<Clause(">=", 2)>>, marker |-> NoMarker]>>

\* releases of a that differ in version, requires_python and yanked, and
\* plain final releases of b
EngineRows ==
    [name : {NameA}, version : RawVersions,
     requires_python : {NoSpec, [null |-> FALSE, text |-> <<Clause(">=", 2)>>]},
     requires_dist : {<<>>}, yanked : BOOLEAN]
    \cup [name : {NameB}, version : {Final(rel) : rel \in 1..MaxRel},
          requires_python : {NoSpec}, requires_dist : {<<>>}, yanked : {FALSE}]

\* final releases with and without a dependency on b
PlainRows ==
    [name : StoredNames, version : {Final(rel) : rel \in 1..MaxRel},
     requires_python : {NoSpec}, requires_dist : {<<>>, RequiresB}, yanked : {FALSE}]

\* the table is keyed by (LOWER(name), version)
KeyUnique(store) ==
    \A r1, r2 \in store :
        (Lower(r1.name) = Lower(r2.name) /\ r1.version = r2.version) => r1 = r2

StoresOver(universe) ==
    {s \in {{r1, r2} : r1, r2 \in universe} \cup {{}} : KeyUnique(s)}

EngineRequests ==
    [python : {NoPython, Python(Final(1)), Python(Final(2))},
     fixed : {<<>>, <<[k |-> NameB, v |-> <<Clause(">=", 2)>>]>>},
     wants : {<<NameA>>, <<NameA, NameB>>, <<NameB, NameA>>},
     max_versions : 0..MaxCap]

FixedTexts == {<<>>, Star, <<Clause("==", 1)>>, <<Clause(">=", 2)>>}

PlainRequests ==
    [python : {NoPython, Python(Final(1)), Python([rel |-> 1, kind |-> "bad"])},
     fixed : {<<>>} \cup {<<[k |-> n, v |-> t]>> : n \in RequestNames, t \in FixedTexts},
     wants : {<<>>} \cup {<<n>> : n \in RequestNames}
             \cup {<<n, m>> : n, m \in RequestNames},
     max_versions : {0, 1}]

\* a request submitted with a well-formed fixed object and plain items
FormOf(request) ==
    [python |-> request.python, fixed_ok |-> TRUE, fixed |-> request.fixed,
     wants |-> request.wants, max_versions |-> request.max_versions]

\* submitted items that hold commas and blanks
CommaItems ==
    {<<",">>, <<" ">>, <<" ", "a">>, <<"a", ",", "b">>, <<"a", ",", " ">>, <<"b", " ", ",", "a">>}

CommaForms ==
    [python : {NoPython, Python(Final(1))}, fixed_ok : BOOLEAN, fixed : {<<>>},
     wants : {<<>>} \cup {<<x>> : x \in CommaItems}
             \cup {<<x, y>> : x \in {<<",">>, <<" ">>}, y \in CommaItems},
     max_versions : {0}]

\* final releases of a project stored under a name with a separator
SeparatorRows ==
    [name : {NameA_B}, version : {Final(rel) : rel \in 1..MaxRel},
     requires_python : {NoSpec}, requires_dist : {<<>>}, yanked : {FALSE}]

SeparatorForms ==
    [python : {Python(Final(1))}, fixed_ok : {TRUE}, fixed : {<<>>},
     wants : {<<NameA_B>>, <<NameADashB>>}, max_versions : {0, 1}]

\* three releases of a, final or pre-release, yanked or not, under each cap
CapRows ==
    [name : {NameA}, version : [rel : 1..MaxRel, kind : {"final", "pre"}],
     requires_python : {NoSpec}, requires_dist : {<<>>}, yanked : BOOLEAN]

TriplesOver(universe) ==
    {s \in {{r1, r2, r3} : r1, r2, r3 \in universe} : Cardinality(s) = 3 /\ KeyUnique(s)}

CapForms ==
    [python : {Python(Final(1))}, fixed_ok : {TRUE}, fixed : {<<>>},
     wants : {<<NameA>>}, max_versions : 0..MaxCap]

\* input_data before the endpoint has built it
NoInput == [python |-> NoPython, fixed |-> <<>>, wants |-> <<>>, max_versions |-> 0]

\* every order in which a query may return the rows of a store
Orders(store) ==
    {rows \in [1..Cardinality(store) -> store] :
        \A i, j \in 1..Cardinality(store) : rows[i] = rows[j] => i = j}

CanonicalNames ==
    {canonicalize_name(n) : n \in RequestNames \cup StoredNames \cup {NameA_B}}

\* every iteration order of a set of names
SetOrders == Orders(CanonicalNames)

NoResult ==
    [status |-> "none", install_plan |-> <<>>, package |-> <<>>,
     constraint_violated |-> NoSpec, stats |-> ZeroStats, exc |-> "none"]

--------------------------------------------------------------------------
(* The service: main.py resolve_dependencies, followed by a second resolve *)
(* call on the same request and store.                                     *)

VARIABLES pc, form, input_data, db, error_msg, requirements, constraints, result, rerun

vars == <<pc, form, input_data, db, error_msg, requirements, constraints, result, rerun>>

Init ==
    /\ pc = "posted"
    /\ \/ form \in {FormOf(r) : r \in EngineRequests} /\ db \in StoresOver(EngineRows)
       \/ form \in {FormOf(r) : r \in PlainRequests} /\ db \in StoresOver(PlainRows)
       \/ form \in CommaForms /\ db \in StoresOver(PlainRows)
       \/ form \in SeparatorForms /\ db \in StoresOver(SeparatorRows)
       \/ form \in CapForms /\ db \in TriplesOver(CapRows)
    /\ input_data = NoInput
    /\ error_msg = "none"
    /\ requirements = <<>>
    /\ constraints = <<>>
    /\ result = NoResult
    /\ rerun = NoResult

\* main.py:146-182: the form is refused with HTTP 400
EndpointReject ==
    /\ pc = "posted"
    /\ EndpointError(form) # "none"
    /\ error_msg' = EndpointError(form)
    /\ pc' = "rejected"
    /\ UNCHANGED <<form, input_data, db, requirements, constraints, result, rerun>>

\* main.py:146-191: input_data is assembled from the form
EndpointAccept ==
    /\ pc = "posted"
    /\ EndpointError(form) = "none"
    /\ input_data' = BuildInput(form)
    /\ pc' = "received"
    /\ UNCHANGED <<form, db, error_msg, requirements, constraints, result, rerun>>

\* main.py:194-199: the request is refused with HTTP 400
ValidateReject ==
    /\ pc = "received"
    /\ \E rows \in Orders(db) :
          /\ validate(rows, input_data) # "none"
          /\ error_msg' = validate(rows, input_data)
    /\ pc' = "rejected"
    /\ UNCHANGED <<form, input_data, db, requirements, constraints, result, rerun>>

\* main.py:194-207: the request is valid
ValidateAccept ==
    /\ pc = "received"
    /\ \E rows \in Orders(db) : validate(rows, input_data) = "none"
    /\ pc' = "validated"
    /\ UNCHANGED <<form, input_data, db, error_msg, requirements, constraints, result, rerun>>

\* main.py:211: reqs_map = prepare_requirements(input_data)
Prepare ==
    /\ pc = "validated"
    /\ LET prepared == prepare_requirements(input_data)
       IN  IF prepared.ok
           THEN /\ requirements' = prepared.requirements
                /\ pc' = "prepared"
                /\ result' = result
           ELSE /\ requirements' = requirements
                /\ pc' = "resolved"
                /\ result' = [NoResult EXCEPT !.status = "error", !.exc = "InvalidSpecifier"]
    /\ UNCHANGED <<form, input_data, db, error_msg, constraints, rerun>>

\* main.py:213: result = resolver.resolve(reqs_map)
Resolve ==
    /\ pc = "prepared"
    /\ \E rows \in Orders(db), set_order \in SetOrders :
          result' = resolve(GraphBuilder(rows, input_data), requirements, set_order)
    /\ constraints' = SeedConstraints(requirements)
    /\ pc' = "resolved"
    /\ UNCHANGED <<form, input_data, db, error_msg, requirements, rerun>>

\* the same request resolved once more on the same store
ResolveAgain ==
    /\ pc = "resolved"
    /\ result.exc # "InvalidSpecifier"
    /\ \E rows \in Orders(db), set_order \in SetOrders :
          rerun' = resolve(GraphBuilder(rows, input_data), requirements, set_order)
    /\ pc' = "rerun"
    /\ UNCHANGED <<form, input_data, db, error_msg, requirements, constraints, result>>

Next == EndpointReject \/ EndpointAccept \/ ValidateReject \/ ValidateAccept \/ Prepare \/ Resolve \/ ResolveAgain

Spec == Init /\ [][Next]_vars

--------------------------------------------------------------------------
(* Properties                                                              *)

Resolved == pc \in {"resolved", "rerun"}

AllVersions == {<<rel, fin>> : rel \in 1..MaxRel, fin \in {0, 1}}

\* every version admitted by spec is admitted by other
Implies(spec, other) == \A v \in AllVersions : Contains(spec, v) => Contains(other, v)

C3_AcceptedNeverRaises == Resolved => result.status \in {"ok", "conflict"}

\* C6: for every name of fixed, the constraint map the search starts from
\* holds, under the canonical name, a specifier set that implies the fixed one.
C6_FixedNeverWeakened ==
    Resolved =>
        \A i \in 1..Len(input_data.fixed) :
            /\ DictHas(constraints, canonicalize_name(input_data.fixed[i].k))
            /\ Implies(DictGet(constraints, canonicalize_name(input_data.fixed[i].k)),
                       SpecifierSet(input_data.fixed[i].v))

HasStar == \E i \in 1..Len(input_data.fixed) : input_data.fixed[i].v = Star

\* the request with every "*" of fixed replaced by the empty specifier
StarAsEmpty ==
    [input_data EXCEPT !.fixed =
        [i \in 1..Len(input_data.fixed) |->
            IF input_data.fixed[i].v = Star
            THEN [k |-> input_data.fixed[i].k, v |-> <<>>]
            ELSE input_data.fixed[i]]]

\* C7: a request with a fixed entry "*" is accepted whenever the same request
\* with the empty specifier is, and then has the same result.
C7_StarLikeEmpty ==
    (pc # "received" /\ HasStar) =>
        \A rows \in Orders(db) :
            validate(rows, StarAsEmpty) = "none" =>
                /\ pc # "rejected"
                /\ Resolved =>
                      \A set_order \in SetOrders :
                          result = resolve(GraphBuilder(rows, StarAsEmpty),
                                           prepare_requirements(StarAsEmpty).requirements,
                                           set_order)

\* the first candidate of the root frame's package declares a dependency
\* that no stored version can satisfy
GreedyDeadEnd(rows) ==
    LET gb == GraphBuilder(rows, input_data)
        package == select_mrv_package(gb, DictKeys(constraints), constraints)
        candidates == get_candidate_versions(gb, package, DictGet(constraints, package))
        dependencies == get_dependencies(gb, package, candidates[1].version)
    IN  /\ constraints # <<>>
        /\ candidates # <<>>
        /\ \E j \in 1..Len(dependencies) :
              /\ dependencies[j].name # package
              /\ get_candidate_versions(
                     gb, dependencies[j].name,
                     dependencies[j].spec
                         \cup ConstraintOf(constraints, dependencies[j].name)) = <<>>

\* C9: with max_versions = 1, a greedy choice that cannot be completed ends
\* in status conflict.
C9_GreedyInfeasibleIsConflict ==
    (Resolved /\ input_data.max_versions = 1 /\ \A rows \in Orders(db) : GreedyDeadEnd(rows))
        => result.status = "conflict"

\* some fixed key and some wants item have the same canonical name
CanonicalOverlap ==
    \E i \in 1..Len(input_data.fixed), j \in 1..Len(input_data.wants) :
        canonicalize_name(input_data.fixed[i].k) = canonicalize_name(input_data.wants[j])

\* C10: a request naming a package in fixed and in wants, names compared in
\* canonical form, is rejected.
C10_CanonicalOverlapRejected == (pc # "received" /\ CanonicalOverlap) => pc = "rejected"

\* C11: a form whose wants list is empty once its items are split on commas
\* and trimmed is refused; it is never validated, prepared or resolved.
C11_EmptyWantsRejected ==
    FinalWants(form.wants) = <<>> => pc \in {"posted", "received", "rejected"}

\* the marker-surviving, parseable requirements of a stored release
SurvivingDeps(row) ==
    {row.requires_dist[i] : i \in
        {j \in 1..Len(row.requires_dist) :
            /\ ~InvalidRequirement(row.requires_dist[j])
            /\ \/ ~row.requires_dist[j].marker.present
               \/ ~input_data.python.given
               \/ MarkerHolds(row.requires_dist[j].marker, input_data.python.raw)}}

\* a stored release the target interpreter can run
InterpreterCompatible(row) ==
    \/ ~input_data.python.given
    \/ row.requires_python.null
    \/ /\ ~InvalidSpecifier(row.requires_python.text)
       /\ Contains(SpecifierSet(row.requires_python.text), Version(input_data.python.raw))

\* chosen, a set of stored releases, is a complete assignment: one release
\* per package, every top-level package and every dependency of a chosen
\* release chosen, every specifier on a chosen release satisfied
CompleteAssignment(chosen) ==
    /\ \A r1, r2 \in chosen :
          canonicalize_name(r1.name) = canonicalize_name(r2.name) => r1 = r2
    /\ \A i \in 1..Len(constraints) :
          \E r \in chosen : canonicalize_name(r.name) = constraints[i].k
    /\ \A r \in chosen :
          /\ ~InvalidVersion(r.version)
          /\ InterpreterCompatible(r)
          /\ Contains(ConstraintOf(constraints, canonicalize_name(r.name)), Version(r.version))
          /\ \A d \in SurvivingDeps(r) :
                \E r2 \in chosen :
                    /\ canonicalize_name(r2.name) = canonicalize_name(d.name)
                    /\ Contains(SpecifierSet(d.spec), Version(r2.version))

\* C14: without a candidate cap, status conflict is returned only if no
\* complete assignment of stored releases exists.
C14_ConflictOnlyIfInfeasible ==
    (Resolved /\ input_data.max_versions = 0 /\ result.status = "conflict")
        => ~\E chosen \in SUBSET db : CompleteAssignment(chosen)

\* code point order of the characters of a canonical name
CharRank(c) == CASE c = "-" -> 0 [] c = "a" -> 1 [] c = "b" -> 2 [] OTHER -> 3

RECURSIVE NameLess(_, _)
\* n sorts strictly before m as a string
NameLess(n, m) ==
    IF m = <<>> THEN FALSE
    ELSE IF n = <<>> THEN TRUE
    ELSE IF CharRank(Head(n)) # CharRank(Head(m)) THEN CharRank(Head(n)) < CharRank(Head(m))
    ELSE NameLess(Tail(n), Tail(m))

\* the candidate count of package in the root frame
RootCount(rows, package) ==
    Len(get_candidate_versions(GraphBuilder(rows, input_data), package,
                               ConstraintOf(constraints, package)))

\* the package the root frame selects
RootSelection(rows) ==
    select_mrv_package(GraphBuilder(rows, input_data), DictKeys(constraints), constraints)

\* C15: the package selected in the root frame has the minimal candidate
\* count of the open list and, among the packages with that count, the
\* smallest name.
C15_MrvMinimalThenByName ==
    (Resolved /\ constraints # <<>>) =>
        \A rows \in Orders(db) :
            /\ InList(DictKeys(constraints), RootSelection(rows))
            /\ \A i \in 1..Len(constraints) :
                  /\ RootCount(rows, RootSelection(rows)) <= RootCount(rows, constraints[i].k)
                  /\ RootCount(rows, constraints[i].k) = RootCount(rows, RootSelection(rows))
                        => ~NameLess(constraints[i].k, RootSelection(rows))

\* the stored releases of package that parse, satisfy spec and run on the
\* target interpreter
Viable(package, spec) ==
    {r \in db : /\ Lower(r.name) = Lower(package)
                /\ ~InvalidVersion(r.version)
                /\ Contains(spec, Version(r.version))
                /\ InterpreterCompatible(r)}

\* release c comes before release d: not yanked before yanked, then newest first
ComesBefore(c_yanked, c_version, d_yanked, d_version) ==
    \/ ~c_yanked /\ d_yanked
    \/ c_yanked = d_yanked /\ VersionKey(Version(c_version)) > VersionKey(Version(d_version))

\* candidates is the ordered list of the viable releases, cut to the cap
OrderedAndCapped(candidates, viable, cap) ==
    /\ \A i \in 1..Len(candidates) :
          \E r \in viable : r.version = candidates[i].version /\ r.yanked = candidates[i].is_yanked
    /\ \A i, j \in 1..Len(candidates) :
          i < j => ComesBefore(candidates[i].is_yanked, candidates[i].version,
                               candidates[j].is_yanked, candidates[j].version)
    /\ Len(candidates) = IF cap # 0 /\ Cardinality(viable) > cap THEN cap ELSE Cardinality(viable)
    /\ \A r \in viable :
          \/ \E i \in 1..Len(candidates) : candidates[i].version = r.version
          \/ \A i \in 1..Len(candidates) :
                ComesBefore(candidates[i].is_yanked, candidates[i].version, r.yanked, r.version)

\* C17: the candidate list of every package of the root frame holds only
\* viable releases, not yanked before yanked, newest first within each
\* group, and is the first max_versions entries of that ordering.
C17_CandidatesOrderedAndCapped ==
    Resolved =>
        \A rows \in Orders(db) : \A i \in 1..Len(constraints) :
            OrderedAndCapped(
                get_candidate_versions(GraphBuilder(rows, input_data),
                                       constraints[i].k, constraints[i].v),
                Viable(constraints[i].k, constraints[i].v),
                input_data.max_versions)

\* of three viable releases the cap of two cuts the yanked newest one
C17_Witness ==
    /\ Resolved
    /\ input_data.max_versions = 2
    /\ \E rows \in Orders(db) : \E i \in 1..Len(constraints) :
          /\ Cardinality(Viable(constraints[i].k, constraints[i].v)) = 3
          /\ Len(get_candidate_versions(GraphBuilder(rows, input_data),
                                        constraints[i].k, constraints[i].v)) = 2
          /\ \E r1, r2 \in Viable(constraints[i].k, constraints[i].v) :
                /\ r1.yanked /\ ~r2.yanked
                /\ VersionKey(Version(r1.version)) > VersionKey(Version(r2.version))
                /\ get_candidate_versions(GraphBuilder(rows, input_data),
                                          constraints[i].k, constraints[i].v)[1]
                      = CandidateRecord(constraints[i].k, Version(r2.version), r2.version, FALSE)
                /\ \A j \in 1..2 :
                      get_candidate_versions(GraphBuilder(rows, input_data),
                                             constraints[i].k, constraints[i].v)[j].version
                          # r1.version

\* the root frame is the only frame of the call: it has no open package, or
\* the package it selects has no candidate
RootFrameOnly ==
    \/ constraints = <<>>
    \/ \A rows \in Orders(db) : RootCount(rows, RootSelection(rows)) = 0

\* r, the result of a call that returned, counts the frames entered (the
\* root frame) in steps and those among them that raised a conflict in
\* backtracks, starting from zero
StatsExact(r) ==
    r.status \in {"ok", "conflict"} =>
        /\ RootFrameOnly
        /\ r.stats.steps = 1
        /\ r.stats.backtracks = (IF r.status = "conflict" THEN 1 ELSE 0)
        /\ r.stats.backtracks <= r.stats.steps

\* C21: in the result of every resolve call steps is the number of frames
\* entered and backtracks the number of frames that raised a conflict, both
\* counted from zero in each call, and backtracks never exceeds steps.
C21_StatsCountFrames ==
    /\ Resolved => StatsExact(result)
    /\ pc = "rerun" => StatsExact(rerun)

\* a second call on a request whose selected package has no candidate
C21_Witness ==
    /\ pc = "rerun"
    /\ constraints # <<>>
    /\ rerun.status = "conflict"
    /\ rerun.stats = [steps |-> 1, backtracks |-> 1]
    /\ result.stats = rerun.stats

==========================================================================
